---- MODULE Spec2Model ----
(***************************************************************************)
(* Model of src/app.py: the /download_get handler (download_get), its      *)
(* helpers get_ydl_opts and download_single, and the DownloadHistory       *)
(* table.  A job is one invocation of download_get by a handler thread.    *)
(* File names, formats and urls are sequences of one-character strings so  *)
(* that startswith / lower / endswith / split are computed, not assumed.   *)
(***************************************************************************)
EXTENDS Integers, Sequences, FiniteSets, TLC

(* ------------------------------ bounds -------------------------------- *)
\* number of requests accepted under serial dispatch
MaxJobs == 1
\* number of requests accepted under threaded dispatch
MaxConcJobs == 2
\* number of download requests accepted next to history queries
MaxHistJobs == 2
\* largest wall-clock reading
MaxClock == 1
\* handler threads of the threaded dispatch
NumThreads == 2
\* longest directory listing handed to the output resolver on its own
MaxFiles == 2

(* ------------------------- program constants -------------------------- *)
MAX_DOWNLOAD_RETRIES == 2

Threads == 1 .. NumThreads

(* Optional values: Python's None is the empty tuple, a value v is <<v>>. *)
None == << >>
Some(v) == << v >>

(* ------------------------------ strings ------------------------------- *)
UpperAlpha ==
  << "A","B","C","D","E","F","G","H","I","J","K","L","M",
     "N","O","P","Q","R","S","T","U","V","W","X","Y","Z" >>
LowerAlpha ==
  << "a","b","c","d","e","f","g","h","i","j","k","l","m",
     "n","o","p","q","r","s","t","u","v","w","x","y","z" >>

\* str.lower() on one character
LowerChar(c) ==
  IF \E i \in 1 .. 26 : UpperAlpha[i] = c
  THEN LowerAlpha[CHOOSE i \in 1 .. 26 : UpperAlpha[i] = c]
  ELSE c

\* str.lower()
Lower(s) == [i \in 1 .. Len(s) |-> LowerChar(s[i])]

\* str.startswith(p)
StartsWith(s, p) ==
  /\ Len(p) <= Len(s)
  /\ SubSeq(s, 1, Len(p)) = p

\* str.endswith(e)
EndsWith(s, e) ==
  /\ Len(e) <= Len(s)
  /\ SubSeq(s, Len(s) - Len(e) + 1, Len(s)) = e

\* s.split('.')[0]: the characters before the first '.', or all of s
SplitDotFirst(s) ==
  IF \E i \in 1 .. Len(s) : s[i] = "."
  THEN LET k == CHOOSE i \in 1 .. Len(s) :
                  /\ s[i] = "."
                  /\ \A j \in 1 .. (i - 1) : s[j] # "."
       IN  SubSeq(s, 1, k - 1)
  ELSE s

\* the formats and extensions that occur
MP4 == << "m","p","4" >>
MP3 == << "m","p","3" >>
JPG == << "j","p","g" >>
PNG == << "p","n","g" >>
GIF == << "g","i","f" >>
UPPER_MP4 == << "M","P","4" >>
WEBM == << "w","e","b","m" >>
EMPTY == << >>

\* basename of the output template, 'dl.%(ext)s' (line 124)
TemplateBase == << "d","l",".","%","(","e","x","t",")","s" >>

\* the engine fills the template: dl.<ext>
Dl(ext) == << "d","l","." >> \o ext

DlInfoJson == Dl(<< "i","n","f","o",".","j","s","o","n" >>)
DlPart(ext) == Dl(ext) \o << ".","p","a","r","t" >>

UrlA == << "h","t","t","p",":","/","/","a" >>
Q720 == << "7","2","0" >>
BEST == << "b","e","s","t" >>

(* --------------------------- get_ydl_opts ------------------------------ *)
DEFAULT_USER_AGENT == "Mozilla/5.0 ... Chrome/94.0.4606.81 Safari/537.36"

\* variant: the else branch falls back to the thumbnail options
get_ydl_opts_Lenient(file_format, quality, output_template) ==
  IF file_format = MP4
  THEN Some([ format |-> "bestvideo+bestaudio/best",
              outtmpl |-> output_template ])
  ELSE IF file_format = MP3
  THEN Some([ format |-> "bestaudio/best",
              outtmpl |-> output_template ])
  ELSE Some([ skip_download |-> TRUE,
              write_thumbnail |-> TRUE,
              outtmpl |-> output_template ])

\* variant: a quality other than 'best' caps the height of the video
get_ydl_opts_QualityAware(file_format, quality, output_template) ==
  IF file_format = MP4
  THEN Some([ format |-> IF quality = BEST THEN "bestvideo+bestaudio/best"
                         ELSE "bestvideo[height<=720]+bestaudio/best",
              outtmpl |-> output_template,
              quiet |-> TRUE,
              ignoreerrors |-> FALSE,
              nocheckcertificate |-> TRUE,
              user_agent |-> DEFAULT_USER_AGENT,
              merge_output_format |-> "mp4",
              retries |-> MAX_DOWNLOAD_RETRIES,
              concurrent_fragment_downloads |-> 5 ])
  ELSE IF file_format = MP3
  THEN Some([ format |-> "bestaudio/best",
              outtmpl |-> output_template,
              postprocessors |->
                << [ key |-> "FFmpegExtractAudio",
                     preferredcodec |-> "mp3",
                     preferredquality |-> "192" ] >>,
              quiet |-> TRUE,
              ignoreerrors |-> FALSE,
              nocheckcertificate |-> TRUE,
              user_agent |-> DEFAULT_USER_AGENT,
              retries |-> MAX_DOWNLOAD_RETRIES ])
  ELSE IF file_format \in { JPG, PNG }
  THEN Some([ skip_download |-> TRUE,
              write_thumbnail |-> TRUE,
              outtmpl |-> output_template,
              quiet |-> TRUE,
              ignoreerrors |-> FALSE,
              nocheckcertificate |-> TRUE ])
  ELSE None

\* lines 47-88: the options bag for a format, or None where the code
\* raises ValueError (line 88).  quality is accepted and never read.
get_ydl_opts(file_format, quality, output_template) ==
  IF file_format = MP4
  THEN Some([ format |-> "bestvideo+bestaudio/best",
              outtmpl |-> output_template,
              quiet |-> TRUE,
              ignoreerrors |-> FALSE,
              nocheckcertificate |-> TRUE,
              user_agent |-> DEFAULT_USER_AGENT,
              merge_output_format |-> "mp4",
              retries |-> MAX_DOWNLOAD_RETRIES,
              concurrent_fragment_downloads |-> 5 ])
  ELSE IF file_format = MP3
  THEN Some([ format |-> "bestaudio/best",
              outtmpl |-> output_template,
              postprocessors |->
                << [ key |-> "FFmpegExtractAudio",
                     preferredcodec |-> "mp3",
                     preferredquality |-> "192" ] >>,
              quiet |-> TRUE,
              ignoreerrors |-> FALSE,
              nocheckcertificate |-> TRUE,
              user_agent |-> DEFAULT_USER_AGENT,
              retries |-> MAX_DOWNLOAD_RETRIES ])
  ELSE IF file_format \in { JPG, PNG }
  THEN Some([ skip_download |-> TRUE,
              write_thumbnail |-> TRUE,
              outtmpl |-> output_template,
              quiet |-> TRUE,
              ignoreerrors |-> FALSE,
              nocheckcertificate |-> TRUE ])
  ELSE None

(* ---------------------------- the resolver ----------------------------- *)
\* variant: the name is compared without lower-casing it
Matches_CaseSensitive(f, prefix, file_format) ==
  /\ StartsWith(f, prefix)
  /\ EndsWith(f, file_format)

\* the test of line 106
Matches(f, prefix, file_format) ==
  /\ StartsWith(f, prefix)
  /\ EndsWith(Lower(f), file_format)

\* lines 105-108: the first entry of the listing that matches, or None
\* where the code raises FileNotFoundError
RECURSIVE resolve(_, _, _)
resolve(listing, prefix, file_format) ==
  IF listing = << >>
  THEN None
  ELSE IF Matches(Head(listing), prefix, file_format)
       THEN Some(Head(listing))
       ELSE resolve(Tail(listing), prefix, file_format)

\* every order os.listdir may return the entries in
RECURSIVE Listings(_)
Listings(S) ==
  IF S = {}
  THEN { << >> }
  ELSE UNION { { << x >> \o l : l \in Listings(S \ { x }) } : x \in S }

(* ------------------------------ state --------------------------------- *)
VARIABLES
  job,       \* per handler thread: the locals and position of download_get
  fs,        \* the temporary directories: existence and entries
  history,   \* the DownloadHistory table, in insertion order
  clock,     \* the last wall-clock reading
  handled,   \* number of requests accepted so far
  arg,       \* input of a function applied on its own; the engine's script
  ret,       \* its result
  historyBody  \* what the last /history request was answered with

vars == << job, fs, history, clock, handled, arg, ret, historyBody >>

\* the most requests any specification accepts
MaxAccepted ==
  LET m == IF MaxJobs > MaxConcJobs THEN MaxJobs ELSE MaxConcJobs
  IN  IF m > MaxHistJobs THEN m ELSE MaxHistJobs

Dirs == 1 .. MaxAccepted

NoDir == [ exists |-> FALSE, entries |-> {} ]

\* a thread that is handling no request
Idle ==
  [ pc |-> "idle",
    id |-> 0,            \* which job this is (its temporary directory)
    args |-> None,       \* request.args
    quality |-> None,    \* line 118
    tmp |-> None,        \* line 122
    opts |-> None,       \* line 91
    attempt |-> 0,       \* loop variable of line 92
    calls |-> 0,         \* calls of ydl.extract_info, line 95
    engineOk |-> FALSE,  \* an attempt returned without raising
    log |-> << >>,       \* the records this job logged
    path |-> None,       \* line 125
    pending |-> None,    \* the DownloadHistory object in the session
    exc |-> None,        \* the exception in flight or caught
    resp |-> None,       \* the value download_get returns
    rmCalls |-> 0,       \* calls of shutil.rmtree, line 135
    rmFailed |-> FALSE,  \* rmtree met an error and ignored it
    added |-> 0,         \* rows this job inserted
    sent |-> None ]      \* the response as delivered to the caller

\* request.args.get(k) is None or a string; both None and '' are falsy
Falsy(o) == o = None \/ o[1] = EMPTY

\* the query strings the serial specification draws requests from
Requests ==
  [ url : { None, Some(EMPTY), Some(UrlA) },
    format : { None, Some(EMPTY), Some(MP4), Some(MP3), Some(JPG), Some(PNG),
               Some(GIF), Some(UPPER_MP4) },
    quality : { None, Some(Q720) } ]

\* causes with which a call of the engine may fail
Causes == { "HTTP Error 403", "Unsupported URL" }

\* what a call of the engine may leave in the directory: nothing, the
\* file of the requested extension, that file beside the raw download, or
\* a partial download
Output(shape, ext) ==
  CASE shape = "nothing" -> {}
    [] shape = "file" -> { Dl(ext) }
    [] shape = "raw+file" -> { Dl(WEBM), Dl(ext) }
    [] shape = "part" -> { DlPart(ext) }

\* the environment the serial specification runs in: the requests, the
\* causes of engine failures, what successful and failed calls leave
\* behind, the calls of the surroundings that may fail (mkdtemp, the
\* commit, rmtree), and the number of requests accepted
SerialEnv ==
  [ reqs |-> Requests,
    causes |-> Causes,
    ok |-> { "nothing", "file", "raw+file" },
    failed |-> { "nothing", "part" },
    faults |-> { "mkdtemp", "commit", "rmtree" },
    limit |-> MaxJobs ]

\* the output template of line 124
OutputTemplate(dir) == [ dir |-> dir, base |-> TemplateBase ]

\* 'JustPaste.' + fmt, line 130
DownloadName(fmt) == << "J","u","s","t","P","a","s","t","e","." >> \o fmt

Fmt(t) == job[t].args[1].format[1]
Url(t) == job[t].args[1].url[1]
Quality(t) == job[t].quality[1]
Dir(t) == job[t].tmp[1]

Set(t, r) == job' = [job EXCEPT ![t] = r]

(* ----------------------------- download_get --------------------------- *)
\* lines 116-120: read the arguments; a missing url or format returns 400
ParseRequest(t, reqs, limit) ==
  /\ job[t].pc = "idle"
  /\ handled < limit
  /\ handled' = handled + 1
  /\ \E a \in reqs :
       LET q == IF Falsy(a.quality) THEN BEST ELSE a.quality[1]
           j == [job[t] EXCEPT !.id = handled + 1, !.args = Some(a),
                               !.quality = Some(q)]
       IN  IF Falsy(a.url) \/ Falsy(a.format)
           THEN Set(t, [j EXCEPT !.pc = "serve",
                                 !.resp = Some([ status |-> 400,
                                                 kind |-> "json",
                                                 error |-> << "Missing parameters" >>,
                                                 file |-> None,
                                                 name |-> None ])])
           ELSE Set(t, [j EXCEPT !.pc = "mkdtemp"])
  /\ UNCHANGED << fs, history, clock, arg, ret, historyBody >>

\* variant: tempfile.mktemp(), which returns a name and creates nothing
Mkdtemp_NameOnly(t, faults) ==
  /\ job[t].pc = "mkdtemp"
  /\ Set(t, [job[t] EXCEPT !.pc = "select", !.tmp = Some(job[t].id)])
  /\ UNCHANGED << fs, history, clock, handled, arg, ret, historyBody >>

\* variant: every job works in one fixed scratch directory
Mkdtemp_SharedDir(t, faults) ==
  /\ job[t].pc = "mkdtemp"
  /\ Set(t, [job[t] EXCEPT !.pc = "select", !.tmp = Some(1)])
  /\ fs' = [fs EXCEPT ![1] = [ exists |-> TRUE, entries |-> fs[1].entries ]]
  /\ UNCHANGED << history, clock, handled, arg, ret, historyBody >>

\* line 122: tempfile.mkdtemp(), outside the try block; an OSError leaves
\* download_get uncaught and the framework answers 500
Mkdtemp(t, faults) ==
  /\ job[t].pc = "mkdtemp"
  /\ \/ /\ Set(t, [job[t] EXCEPT !.pc = "select", !.tmp = Some(job[t].id)])
        /\ fs' = [fs EXCEPT ![job[t].id] = [ exists |-> TRUE, entries |-> {} ]]
     \/ /\ "mkdtemp" \in faults
        /\ Set(t, [job[t] EXCEPT !.pc = "serve",
                                 !.exc = Some([ kind |-> "OSError",
                                                detail |-> << "mkdtemp" >>,
                                                caught |-> FALSE ]),
                                 !.resp = Some([ status |-> 500,
                                                 kind |-> "html",
                                                 error |-> None,
                                                 file |-> None,
                                                 name |-> None ])])
        /\ UNCHANGED fs
  /\ UNCHANGED << history, clock, handled, arg, ret, historyBody >>

(* ---------------------------- download_single ------------------------- *)
\* line 91 (called from line 125): build the options or raise ValueError
SelectConfig(t) ==
  /\ job[t].pc = "select"
  /\ LET o == get_ydl_opts(Fmt(t), Quality(t), OutputTemplate(Dir(t)))
     IN  IF o # None
         THEN Set(t, [job[t] EXCEPT !.pc = "extract", !.opts = o,
                                    !.attempt = 0])
         ELSE Set(t, [job[t] EXCEPT !.pc = "except",
                                    !.exc = Some([ kind |-> "ValueError",
                                                   detail |-> Fmt(t),
                                                   caught |-> FALSE ])])
  /\ UNCHANGED << fs, history, clock, handled, arg, ret, historyBody >>

\* line 99: is this the last iteration of range(MAX_DOWNLOAD_RETRIES)
IsFinalAttempt(attempt) == attempt = MAX_DOWNLOAD_RETRIES - 1

\* line 98: the warning of a failed attempt
Warning(attempt, cause) ==
  [ level |-> "WARNING", attempt |-> attempt + 1, cause |-> cause ]

\* variant: a failed attempt hands over to the resolver
AfterFailure_ToResolver(attempt) == "resolve"

\* where the loop of line 92 goes after a failed attempt that did not raise
AfterFailure(attempt) ==
  IF attempt + 1 < MAX_DOWNLOAD_RETRIES THEN "extract" ELSE "resolve"

\* variant: no break, the loop goes round again after a success
AfterSuccess_NoBreak(attempt) == "extract"

\* line 96: break leaves the loop for the code after it
AfterSuccess(attempt) == "resolve"

\* variant: the first failure is kept and raised at the end
Reraised_First(log) == log[1].cause

\* line 100: the bare raise re-raises the exception being handled, the one
\* the warning just logged
Reraised(log) == log[Len(log)].cause

\* lines 92-100: one iteration of the retry loop, one call of the engine
EngineCall(t, causes, ok, failed) ==
  /\ job[t].pc = "extract"
  /\ job[t].attempt < MAX_DOWNLOAD_RETRIES
  /\ \/ \E w \in { Output(sh, Fmt(t)) : sh \in ok } :
          \* extract_info returned: break
          /\ Set(t, [job[t] EXCEPT !.pc = AfterSuccess(job[t].attempt),
                                   !.calls = @ + 1,
                                   !.engineOk = TRUE])
          /\ fs' = [fs EXCEPT ![Dir(t)].entries = @ \cup w]
     \/ \E c \in causes, w \in { Output(sh, Fmt(t)) : sh \in failed } :
          \* extract_info raised: warn, then re-raise or go round again
          /\ LET j == [job[t] EXCEPT !.calls = @ + 1,
                                     !.log = Append(@, Warning(job[t].attempt, c))]
             IN  IF IsFinalAttempt(job[t].attempt)
                 THEN Set(t, [j EXCEPT !.pc = "except",
                                       !.exc = Some([ kind |-> "DownloadError",
                                                      detail |-> << Reraised(j.log) >>,
                                                      caught |-> FALSE ])])
                 ELSE Set(t, [j EXCEPT !.pc = AfterFailure(job[t].attempt),
                                       !.attempt = @ + 1])
          /\ fs' = [fs EXCEPT ![Dir(t)].entries = @ \cup w]
  /\ UNCHANGED << history, clock, handled, arg, ret, historyBody >>

\* the prefix of line 104
Prefix == SplitDotFirst(TemplateBase)

\* variant: a listing without a match sends the job back into the loop
Resolve_Retry(t) ==
  /\ job[t].pc = "resolve"
  /\ \E l \in Listings(fs[job[t].tmp[1]].entries) :
       LET r == resolve(l, SplitDotFirst(TemplateBase), job[t].args[1].format[1])
       IN  IF r # None
           THEN Set(t, [job[t] EXCEPT !.pc = "add",
                                      !.path = Some([ dir |-> job[t].tmp[1],
                                                      name |-> r[1] ])])
           ELSE Set(t, [job[t] EXCEPT !.pc = "extract", !.engineOk = FALSE])
  /\ UNCHANGED << fs, history, clock, handled, arg, ret, historyBody >>

\* lines 103-108: list the directory, take the first match
Resolve(t) ==
  /\ job[t].pc = "resolve"
  /\ \E l \in Listings(fs[Dir(t)].entries) :
       LET r == resolve(l, Prefix, Fmt(t))
       IN  IF r # None
           THEN Set(t, [job[t] EXCEPT !.pc = "add",
                                      !.path = Some([ dir |-> Dir(t),
                                                      name |-> r[1] ])])
           ELSE Set(t, [job[t] EXCEPT !.pc = "except",
                                      !.exc = Some([ kind |-> "FileNotFoundError",
                                                     detail |-> Fmt(t),
                                                     caught |-> FALSE ])])
  /\ UNCHANGED << fs, history, clock, handled, arg, ret, historyBody >>

(* ------------------------ recording and replying ---------------------- *)
\* line 127: db.session.add(DownloadHistory(url, file_format, quality))
SessionAdd(t) ==
  /\ job[t].pc = "add"
  /\ Set(t, [job[t] EXCEPT !.pc = "flush",
                           !.pending = Some([ url |-> Url(t),
                                              file_format |-> Fmt(t),
                                              quality |-> Quality(t) ])])
  /\ UNCHANGED << fs, history, clock, handled, arg, ret, historyBody >>

\* line 128, first half: the flush evaluates the column default of line 33,
\* datetime.utcnow
CommitFlush(t) ==
  /\ job[t].pc = "flush"
  /\ \E now \in clock .. MaxClock :
       /\ clock' = now
       /\ Set(t, [job[t] EXCEPT !.pc = "insert",
                                !.pending = Some([ url |-> @[1].url,
                                                   file_format |-> @[1].file_format,
                                                   quality |-> @[1].quality,
                                                   timestamp |-> now ])])
  /\ UNCHANGED << fs, history, handled, arg, ret, historyBody >>

\* line 29: the integer primary key the table assigns
NextId(h) ==
  IF h = << >> THEN 1 ELSE h[Len(h)].id + 1

\* variant: the quality of the request is not stored
Row_DefaultQuality(id, p) ==
  [ id |-> id, url |-> p.url, file_format |-> p.file_format,
    quality |-> BEST, timestamp |-> p.timestamp ]

\* the row of lines 28-33
Row(id, p) ==
  [ id |-> id, url |-> p.url, file_format |-> p.file_format,
    quality |-> p.quality, timestamp |-> p.timestamp ]

\* line 128, second half: INSERT and COMMIT, or the commit raises
CommitInsert(t, faults) ==
  /\ job[t].pc = "insert"
  /\ \/ /\ history' = Append(history, Row(NextId(history), job[t].pending[1]))
        /\ Set(t, [job[t] EXCEPT !.pc = "sendfile", !.added = @ + 1,
                                 !.pending =
                                   Some(Row(NextId(history), job[t].pending[1]))])
     \/ /\ "commit" \in faults
        /\ UNCHANGED history
        /\ Set(t, [job[t] EXCEPT !.pc = "except",
                                 !.exc = Some([ kind |-> "OperationalError",
                                                detail |-> << "commit" >>,
                                                caught |-> FALSE ])])
  /\ UNCHANGED << fs, clock, handled, arg, ret, historyBody >>

\* lines 129-130: send_file opens the file and builds the response
SendFile(t) ==
  /\ job[t].pc = "sendfile"
  /\ Set(t, [job[t] EXCEPT !.pc = "finally",
                           !.resp = Some([ status |-> 200,
                                           kind |-> "file",
                                           error |-> None,
                                           file |-> job[t].path,
                                           name |-> Some(DownloadName(Fmt(t))) ])])
  /\ UNCHANGED << fs, history, clock, handled, arg, ret, historyBody >>

\* lines 131-133: log the exception, answer 500 with str(e)
Except(t) ==
  /\ job[t].pc = "except"
  /\ Set(t, [job[t] EXCEPT !.pc = "finally",
                           !.exc = Some([ @[1] EXCEPT !.caught = TRUE ]),
                           !.log = Append(@, [ level |-> "ERROR",
                                               attempt |-> 0,
                                               cause |-> job[t].exc[1].kind ]),
                           !.resp = Some([ status |-> 500,
                                           kind |-> "json",
                                           error |-> Some([ kind |-> job[t].exc[1].kind,
                                                            detail |-> job[t].exc[1].detail ]),
                                           file |-> None,
                                           name |-> None ])])
  /\ UNCHANGED << fs, history, clock, handled, arg, ret, historyBody >>

\* variant: the directory is removed before send_file is called
Finally_BeforeSendFile(t, faults) ==
  /\ job[t].pc \in { "sendfile", "finally" }
  /\ Set(t, [job[t] EXCEPT !.pc = IF job[t].pc = "sendfile" THEN "sendfile"
                                  ELSE "serve",
                           !.rmCalls = @ + 1])
  /\ fs' = [fs EXCEPT ![job[t].tmp[1]] = NoDir]
  /\ UNCHANGED << history, clock, handled, arg, ret, historyBody >>

\* variant: cleanup at the end of the try block instead of in finally
Finally_OnlyOnSuccess(t, faults) ==
  /\ job[t].pc = "finally"
  /\ IF job[t].exc = None
     THEN /\ Set(t, [job[t] EXCEPT !.pc = "serve", !.rmCalls = @ + 1])
          /\ fs' = [fs EXCEPT ![job[t].tmp[1]] = NoDir]
     ELSE /\ Set(t, [job[t] EXCEPT !.pc = "serve"])
          /\ UNCHANGED fs
  /\ UNCHANGED << history, clock, handled, arg, ret, historyBody >>

\* variant: a removal that failed is waited for, and the handler stays
Finally_WaitForRemoval(t, faults) ==
  /\ job[t].pc = "finally"
  /\ ~job[t].rmFailed
  /\ \/ /\ Set(t, [job[t] EXCEPT !.pc = "serve", !.rmCalls = @ + 1])
        /\ fs' = [fs EXCEPT ![Dir(t)] = NoDir]
     \/ /\ "rmtree" \in faults
        /\ Set(t, [job[t] EXCEPT !.rmCalls = @ + 1, !.rmFailed = TRUE])
        /\ UNCHANGED fs
  /\ UNCHANGED << history, clock, handled, arg, ret, historyBody >>

\* lines 134-135: shutil.rmtree(tmp, ignore_errors=True) removes the
\* directory, or fails and says nothing
Finally(t, faults) ==
  /\ job[t].pc = "finally"
  /\ \/ /\ Set(t, [job[t] EXCEPT !.pc = "serve", !.rmCalls = @ + 1])
        /\ fs' = [fs EXCEPT ![Dir(t)] = NoDir]
     \/ /\ "rmtree" \in faults
        /\ Set(t, [job[t] EXCEPT !.pc = "serve", !.rmCalls = @ + 1,
                                 !.rmFailed = TRUE])
        /\ UNCHANGED fs
  /\ UNCHANGED << history, clock, handled, arg, ret, historyBody >>

\* the framework delivers what download_get returned
Serve(t) ==
  /\ job[t].pc = "serve"
  /\ Set(t, [job[t] EXCEPT !.pc = "done", !.sent = job[t].resp])
  /\ UNCHANGED << fs, history, clock, handled, arg, ret, historyBody >>

\* the thread takes up the next request with fresh locals
Recycle(t) ==
  /\ job[t].pc = "done"
  /\ Set(t, Idle)
  /\ UNCHANGED << fs, history, clock, handled, arg, ret, historyBody >>

(* ------------------------------ /history ------------------------------ *)
\* lines 35-42: as_dict, the timestamp as its ISO text with a Z appended
as_dict(r) ==
  [ id |-> r.id, url |-> r.url, file_format |-> r.file_format,
    quality |-> r.quality, timestamp |-> << r.timestamp, "Z" >> ]

\* line 139: the orders ORDER BY timestamp DESC may return the table in;
\* rows of equal timestamp come in either order
ByTimestampDesc(h) ==
  LET n == Len(h)
      perms == { p \in [1 .. n -> 1 .. n] :
                   \A i, k \in 1 .. n : i # k => p[i] # p[k] }
  IN  { [i \in 1 .. n |-> h[p[i]]] : p \in
          { q \in perms : \A i \in 1 .. n - 1 :
                            h[q[i]].timestamp >= h[q[i + 1]].timestamp } }

\* variant: the query also prunes the table down to its newest row
HistoryGet_Prune ==
  /\ \E recs \in ByTimestampDesc(history) :
       /\ historyBody' = Some([i \in 1 .. Len(recs) |-> as_dict(recs[i])])
       /\ historyBody' # historyBody
  /\ history' = IF history = << >> THEN history ELSE << history[Len(history)] >>
  /\ UNCHANGED << job, fs, clock, handled, arg, ret >>

\* lines 137-140: GET /history, one SELECT and its rendering; a repeated
\* answer leaves nothing to record
HistoryGet ==
  /\ \E recs \in ByTimestampDesc(history) :
       /\ historyBody' = Some([i \in 1 .. Len(recs) |-> as_dict(recs[i])])
       /\ historyBody' # historyBody
  /\ UNCHANGED << job, fs, history, clock, handled, arg, ret >>

(* ------------------------- the resolver on its own -------------------- *)
\* names a directory may hold
NamePool ==
  { Dl(MP4), Dl(MP3), Dl(WEBM), DlInfoJson, Dl(UPPER_MP4),
    << "x" >> \o Dl(MP4) }

\* the listings of at most MaxFiles distinct names
ListingsUpTo(n) ==
  UNION { Listings(S) : S \in { T \in SUBSET NamePool : Cardinality(T) <= n } }

ResolveArgs ==
  [ listing : ListingsUpTo(MaxFiles), ext : { MP4, MP3 } ]

ApplyResolve ==
  /\ ret = None
  /\ arg # None
  /\ ret' = Some(resolve(arg[1].listing, Prefix, arg[1].ext))
  /\ UNCHANGED << job, fs, history, clock, handled, arg,
                  historyBody >>

(* --------------------------- specifications --------------------------- *)
Init ==
  /\ job = [t \in Threads |-> Idle]
  /\ fs = [d \in Dirs |-> NoDir]
  /\ history = << >>
  /\ clock = 0
  /\ handled = 0
  /\ arg = None
  /\ ret = None
  /\ historyBody = None

Step(t, env) ==
  \/ ParseRequest(t, env.reqs, env.limit)
  \/ Mkdtemp(t, env.faults)
  \/ SelectConfig(t)
  \/ EngineCall(t, env.causes, env.ok, env.failed)
  \/ Resolve(t)
  \/ SessionAdd(t)
  \/ CommitFlush(t)
  \/ CommitInsert(t, env.faults)
  \/ SendFile(t)
  \/ Except(t)
  \/ Finally(t, env.faults)
  \/ Serve(t)
  \/ Recycle(t)

\* serial dispatch: one handler thread takes the requests one after another
Next == Step(1, SerialEnv)

Spec == Init /\ [][Next]_vars

\* threaded dispatch: the handler threads interleave step by step, on one
\* kind of request, with an engine that succeeds and the commit as the only
\* call that may fail
ConcRequests ==
  [ url : { Some(UrlA) }, format : { Some(MP4) }, quality : { None } ]

ConcEnv ==
  [ reqs |-> ConcRequests,
    causes |-> { },
    ok |-> { "file" },
    failed |-> { "nothing" },
    faults |-> { "commit" },
    limit |-> MaxConcJobs ]

NextConc == \E t \in Threads : Step(t, ConcEnv)

SpecConc == Init /\ [][NextConc]_vars

\* download requests next to history queries: one handler thread, requests
\* that are rejected, fail or succeed, and a commit that may fail
HistRequests ==
  [ url : { None, Some(UrlA) }, format : { Some(MP4), Some(GIF) },
    quality : { None, Some(Q720) } ]

HistEnv ==
  [ reqs |-> HistRequests, causes |-> { "HTTP Error 403" }, ok |-> { "file" },
    failed |-> { "nothing" }, faults |-> { "commit" }, limit |-> MaxHistJobs ]

NextHist ==
  \/ Step(1, HistEnv)
  \/ HistoryGet

SpecHist == Init /\ [][NextHist]_vars

\* the same request under every quality: each handler thread takes one
\* request, one after the other, all with one url and one format and each
\* with a quality of its own, and every job meets the same engine, whose
\* behaviour is fixed beforehand: what the call of each attempt does
EngineBehaviours ==
  [1 .. MAX_DOWNLOAD_RETRIES -> { "file", "nothing", "raise" }]

TwinScripts ==
  [ format : { MP4, MP3, JPG, GIF },
    quality : [Threads -> { None, Some(Q720) }],
    engine : EngineBehaviours ]

TwinEnv(t) ==
  LET sc == arg[1]
      does == IF job[t].attempt < MAX_DOWNLOAD_RETRIES
              THEN sc.engine[job[t].attempt + 1] ELSE "raise"
  IN  [ reqs |-> { [ url |-> Some(UrlA), format |-> Some(sc.format),
                     quality |-> sc.quality[t] ] },
        causes |-> IF does = "raise" THEN { "HTTP Error 403" } ELSE { },
        ok |-> IF does = "raise" THEN { } ELSE { does },
        failed |-> { "nothing" },
        faults |-> { },
        limit |-> IF handled = t - 1 /\ (t = 1 \/ job[t - 1].pc = "done")
                  THEN t ELSE 0 ]

InitTwin ==
  /\ job = [t \in Threads |-> Idle]
  /\ fs = [d \in Dirs |-> NoDir]
  /\ history = << >>
  /\ clock = 0
  /\ handled = 0
  /\ arg \in { Some(sc) : sc \in TwinScripts }
  /\ ret = None
  /\ historyBody = None

NextTwin == \E t \in Threads : Step(t, TwinEnv(t))

SpecTwin == InitTwin /\ [][NextTwin]_vars

\* serial dispatch with progress: requests that are rejected, fail or
\* succeed, an engine whose calls return, and surroundings that may fail
LiveRequests ==
  [ url : { None, Some(UrlA) }, format : { Some(MP4), Some(JPG), Some(GIF) },
    quality : { None } ]

LiveEnv ==
  [ reqs |-> LiveRequests, causes |-> { "HTTP Error 403" },
    ok |-> { "file", "nothing" }, failed |-> { "nothing" },
    faults |-> { "mkdtemp", "commit", "rmtree" }, limit |-> MaxJobs ]

\* a step of thread t's handler once it has taken a request
Run(t) == job[t].pc # "idle" /\ Step(t, LiveEnv)

NextLive == Step(1, LiveEnv)

\* the handler thread that has taken a request keeps running, and every
\* call it makes returns; nothing obliges a request to arrive
SpecLive ==
  /\ Init
  /\ [][NextLive]_vars
  /\ WF_vars(Run(1))

\* get_ydl_opts applied on its own to formats, qualities and templates
OptsArgs ==
  [ file_format : { MP4, MP3, JPG, PNG, GIF, UPPER_MP4, WEBM, EMPTY,
                    << "J","P","G" >>, << "m","p" >> },
    quality : { BEST, Q720, EMPTY },
    output_template : { OutputTemplate(d) : d \in Dirs } ]

ApplyOpts ==
  /\ ret = None
  /\ arg # None
  /\ ret' = Some(get_ydl_opts(arg[1].file_format, arg[1].quality,
                              arg[1].output_template))
  /\ UNCHANGED << job, fs, history, clock, handled, arg,
                  historyBody >>

InitOpts ==
  /\ job = [t \in Threads |-> Idle]
  /\ fs = [d \in Dirs |-> NoDir]
  /\ history = << >>
  /\ clock = 0
  /\ handled = 0
  /\ arg \in { Some(a) : a \in OptsArgs }
  /\ ret = None
  /\ historyBody = None

NextOpts == ApplyOpts

SpecOpts == InitOpts /\ [][NextOpts]_vars

\* the output resolver applied to every bounded listing
InitResolve ==
  /\ job = [t \in Threads |-> Idle]
  /\ fs = [d \in Dirs |-> NoDir]
  /\ history = << >>
  /\ clock = 0
  /\ handled = 0
  /\ arg \in { Some(a) : a \in ResolveArgs }
  /\ ret = None
  /\ historyBody = None

NextResolve == ApplyResolve

SpecResolve == InitResolve /\ [][NextResolve]_vars

(* ------------------------------ properties ---------------------------- *)
\* the handler of thread t has returned (or was left by an exception)
Ended(t) == job[t].pc \in { "serve", "done" }

\* thread t's job acquired a scratch workspace
Acquired(t) == job[t].tmp # None

\* the directory of thread t's job is on disk
DirExists(t) == fs[job[t].id].exists

\* the warnings thread t's job logged
Warnings(t) ==
  Cardinality({ i \in 1 .. Len(job[t].log) : job[t].log[i].level = "WARNING" })

\* the engine calls of thread t's job that raised
FailedCalls(t) == job[t].calls - (IF job[t].engineOk THEN 1 ELSE 0)

ExcKind(t) == IF job[t].exc = None THEN "none" ELSE job[t].exc[1].kind

\* C1 as stated: once a job that acquired a workspace has ended, rmtree has
\* run exactly once and the directory does not exist, on every exit path.
C1_RemovedOnEveryPath ==
  \A t \in Threads :
    (Acquired(t) /\ Ended(t)) => (job[t].rmCalls = 1 /\ ~DirExists(t))

\* C1 amended: rmtree is called exactly once on every exit path of a job
\* that acquired a workspace and never before the job's end, and the
\* directory is gone once the job has ended unless that one removal failed.
C1_RemovalAttemptedOnce ==
  \A t \in Threads :
    /\ job[t].rmCalls <= 1
    /\ (Acquired(t) /\ Ended(t)) =>
         /\ job[t].rmCalls = 1
         /\ (~job[t].rmFailed => ~DirExists(t))
    /\ (Acquired(t) /\ ~Ended(t)) => (job[t].rmCalls = 0 /\ DirExists(t))

\* a job whose history commit raised has ended with its workspace removed
C1_Witness ==
  \E t \in Threads :
    /\ job[t].pc = "done"
    /\ ExcKind(t) = "OperationalError"
    /\ job[t].rmCalls = 1
    /\ ~DirExists(t)

\* C2: a job that got past extraction made between 1 and
\* MAX_DOWNLOAD_RETRIES engine calls, no job ever makes more, and once an
\* attempt has succeeded the job makes no further engine call.
C2_PastExtraction(t) ==
  /\ job[t].opts # None
  /\ job[t].pc # "extract"

C2_NoCallAfterSuccess ==
  \A t \in Threads :
    (job[t].engineOk /\ job'[t].id = job[t].id) => job'[t].calls = job[t].calls

C2_AttemptBounds ==
  /\ [](\A t \in Threads :
          /\ job[t].calls <= MAX_DOWNLOAD_RETRIES
          /\ C2_PastExtraction(t) => job[t].calls >= 1)
  /\ [][C2_NoCallAfterSuccess]_vars

\* a job that failed once and then succeeded has gone on to later steps
C2_Witness ==
  \E t \in Threads :
    /\ job[t].engineOk
    /\ job[t].calls = MAX_DOWNLOAD_RETRIES
    /\ job[t].pc = "done"

\* thread t's job has delivered the file to the caller
Delivered200(t) ==
  /\ job[t].pc = "done"
  /\ job[t].sent[1].status = 200
  /\ job[t].sent[1].file = job[t].path

\* C3 as stated: every failed attempt logs exactly one warning, a job whose
\* first attempt failed and whose second succeeded with a matching file
\* completes successfully with exactly one warning, and a failure that is
\* not final is followed directly by the next engine call of that job.
C3_NextStepIsRetry ==
  \A t \in Threads :
    (job[t].pc = "extract" /\ job[t].calls >= 1 /\ job'[t] # job[t])
      => job'[t].calls = job[t].calls + 1

C3_WarningPerFailure ==
  /\ [](\A t \in Threads :
          /\ Warnings(t) = FailedCalls(t)
          /\ (job[t].pc = "done" /\ job[t].engineOk /\ job[t].calls = 2
              /\ job[t].path # None)
               => (Delivered200(t) /\ Warnings(t) = 1))
  /\ [][C3_NextStepIsRetry]_vars

\* C4: when every permitted attempt failed, the job fails with the error of
\* the last attempt, the resolver did not run, no row was added and no file
\* is returned.
C4_Exhausted(t) ==
  /\ job[t].calls = MAX_DOWNLOAD_RETRIES
  /\ ~job[t].engineOk

C4_LastErrorPropagates ==
  \A t \in Threads :
    C4_Exhausted(t) =>
      /\ job[t].pc \in { "except", "finally", "serve", "done" }
      /\ ExcKind(t) = "DownloadError"
      /\ job[t].exc[1].detail = << job[t].log[MAX_DOWNLOAD_RETRIES].cause >>
      /\ job[t].path = None
      /\ job[t].pending = None
      /\ job[t].added = 0
      /\ job[t].resp # None =>
           /\ job[t].resp[1].status = 500
           /\ job[t].resp[1].file = None
           /\ job[t].resp[1].error[1].detail
                = << job[t].log[MAX_DOWNLOAD_RETRIES].cause >>
      /\ job[t].pc = "done" => job[t].sent = job[t].resp

\* both attempts failed with different causes and the caller got the 500
C4_Witness ==
  \E t \in Threads :
    /\ C4_Exhausted(t)
    /\ job[t].pc = "done"
    /\ job[t].log[1].cause # job[t].log[2].cause
    /\ job[t].sent[1].status = 500

\* C5: a request whose url or format is missing or empty, or whose format
\* is not mp4, mp3, jpg or png, is rejected: no engine call is made for it,
\* nothing is resolved and no row is added.
C5_Supported == { MP4, MP3, JPG, PNG }

C5_Rejectable(a) ==
  \/ Falsy(a.url)
  \/ Falsy(a.format)
  \/ a.format[1] \notin C5_Supported

C5_RejectedBeforeEngine ==
  \A t \in Threads :
    (job[t].args # None /\ C5_Rejectable(job[t].args[1])) =>
      /\ job[t].calls = 0
      /\ job[t].opts = None
      /\ job[t].path = None
      /\ job[t].pending = None
      /\ job[t].added = 0
      /\ job[t].pc \in { "mkdtemp", "select", "except", "finally", "serve", "done" }
      /\ Acquired(t) /\ DirExists(t) => fs[job[t].id].entries = {}
      /\ job[t].pc = "done" =>
           /\ job[t].sent[1].status \in { 400, 500 }
           /\ job[t].sent[1].file = None

\* a request for format 'MP4' was answered 500 with the ValueError
C5_Witness ==
  \E t \in Threads :
    /\ job[t].pc = "done"
    /\ job[t].args[1].format = Some(UPPER_MP4)
    /\ ExcKind(t) = "ValueError"
    /\ job[t].sent[1].status = 500
    /\ job[t].calls = 0

\* C6 as stated: at the moment the unsupported-format error is raised the
\* job has created no scratch workspace.
C6_RaisedUnsupported(t) ==
  /\ job[t].pc = "except"
  /\ ExcKind(t) = "ValueError"

C6_NoWorkspaceYet ==
  \A t \in Threads :
    C6_RaisedUnsupported(t) => (~Acquired(t) /\ ~DirExists(t))

\* C6 amended: at the moment the unsupported-format error is raised the job
\* has made no engine call, written no file and added no row; its scratch
\* workspace has already been created and is empty.
C6_NoEngineIOYet ==
  \A t \in Threads :
    C6_RaisedUnsupported(t) =>
      /\ job[t].calls = 0
      /\ job[t].added = 0
      /\ job[t].rmCalls = 0
      /\ Acquired(t)
      /\ DirExists(t)
      /\ fs[job[t].id].entries = {}

\* the ValueError for format 'gif' has just been raised
C6_Witness ==
  \E t \in Threads :
    /\ C6_RaisedUnsupported(t)
    /\ job[t].args[1].format = Some(GIF)
    /\ DirExists(t)

\* the quality a request asks for, line 118
C7_Quality(a) == IF Falsy(a.quality) THEN BEST ELSE a.quality[1]

\* C7: a successful job has added exactly one row, with its url, format and
\* quality; the row is added after resolution succeeded and before the
\* response is built; a job that failed in format selection, extraction or
\* resolution has added none.
C7_OneRowPerSuccess ==
  \A t \in Threads :
    /\ job[t].added <= 1
    /\ Delivered200(t) =>
         /\ job[t].added = 1
         /\ job[t].pending # None
         /\ Cardinality({ i \in 1 .. Len(history) : history[i] = job[t].pending[1] }) = 1
         /\ job[t].pending[1].url = job[t].args[1].url[1]
         /\ job[t].pending[1].file_format = job[t].args[1].format[1]
         /\ job[t].pending[1].quality = C7_Quality(job[t].args[1])
    /\ job[t].added = 1 => (job[t].path # None /\ job[t].engineOk)
    /\ job[t].pc = "sendfile" => (job[t].added = 1 /\ job[t].resp = None)
    /\ (job[t].resp # None /\ job[t].resp[1].status = 200) => job[t].added = 1
    /\ ExcKind(t) \in { "ValueError", "DownloadError", "FileNotFoundError" }
         => job[t].added = 0
    /\ Len(history) <= handled

\* a job that asked for quality 720 has delivered its file
C7_Witness ==
  \E t \in Threads :
    /\ Delivered200(t)
    /\ job[t].args[1].quality = Some(Q720)
    /\ Len(history) = 1

\* C8 as stated: when extraction and resolution have succeeded the caller
\* receives the file, also when the history commit raised.
C8_HistoryFailureDoesNotBlock ==
  \A t \in Threads :
    (job[t].pc = "done" /\ job[t].path # None) => Delivered200(t)

\* C9 as stated: while the file response is being served the job's
\* workspace has not been removed.
C9_Serving(t) ==
  /\ job[t].pc = "serve"
  /\ job[t].resp[1].status = 200

C9_WorkspaceOutlivesResponse ==
  \A t \in Threads : C9_Serving(t) => DirExists(t)

\* C9 amended: the workspace is removed only after the handler has built
\* its response (send_file has opened the file, or the error reply exists),
\* and rmtree has already run once when the response is being served.
C9_RemovedAfterResponseBuilt ==
  \A t \in Threads :
    /\ job[t].rmCalls >= 1 => job[t].resp # None
    /\ (Acquired(t) /\ job[t].resp = None) => DirExists(t)
    /\ (Acquired(t) /\ job[t].pc = "serve") => job[t].rmCalls = 1

\* a file response is being served from a directory that is already gone
C9_Witness ==
  \E t \in Threads :
    /\ C9_Serving(t)
    /\ job[t].rmCalls = 1
    /\ ~DirExists(t)

\* the test of C10, character by character
C10_Match(n, ext) ==
  /\ Len(n) >= 2
  /\ n[1] = "d"
  /\ n[2] = "l"
  /\ Len(n) >= Len(ext)
  /\ \A i \in 1 .. Len(ext) : LowerChar(n[Len(n) - Len(ext) + i]) = ext[i]

\* C10: the resolver returns the entry of least index that starts with 'dl'
\* and whose lower-cased name ends with the extension, and nothing when no
\* entry does; dl.mp4 beside dl.info.json resolves to dl.mp4 and dl.mp3
\* beside dl.webm resolves to dl.mp3 in either listing order.
C10_FirstMatchInListingOrder ==
  ret # None =>
    LET l == arg[1].listing
        e == arg[1].ext
        M == { i \in 1 .. Len(l) : C10_Match(l[i], e) }
    IN  /\ IF M = {}
           THEN ret[1] = None
           ELSE /\ ret[1] # None
                /\ \E i \in M : (\A k \in M : i <= k) /\ ret[1][1] = l[i]
        /\ (l \in Listings({ Dl(MP4), DlInfoJson }) /\ e = MP4)
             => ret[1] = Some(Dl(MP4))
        /\ (l \in Listings({ Dl(WEBM), Dl(MP3) }) /\ e = MP3)
             => ret[1] = Some(Dl(MP3))

\* of two matching entries the one listed first was returned
C10_Witness ==
  /\ ret = Some(Some(Dl(UPPER_MP4)))
  /\ arg[1].listing = << Dl(WEBM), Dl(UPPER_MP4) >>
  /\ arg[1].ext = MP4

C10_WitnessTie ==
  /\ ret = Some(Some(Dl(UPPER_MP4)))
  /\ arg[1].listing = << Dl(UPPER_MP4), Dl(MP4) >>


\* no entry of thread t's directory passes the test of the resolver
C11_NoMatch(t) ==
  \A n \in fs[job[t].id].entries : ~C10_Match(n, job[t].args[1].format[1])

C11_NotFoundStep ==
  \A t \in Threads :
    /\ (job[t].pc = "resolve" /\ C11_NoMatch(t) /\ job'[t] # job[t])
         => (job'[t].pc = "except" /\ job'[t].exc # None
             /\ job'[t].exc[1].kind = "FileNotFoundError")
    /\ (ExcKind(t) = "FileNotFoundError" /\ job'[t].id = job[t].id)
         => job'[t].calls = job[t].calls

\* C11: when an attempt succeeded and no entry of the workspace matches
\* the prefix and extension, resolution raises FileNotFoundError, the job
\* fails with it, and the engine is not called again.
C11_NotFoundFailsWithoutRetry ==
  /\ [](\A t \in Threads :
          ExcKind(t) = "FileNotFoundError" =>
            /\ job[t].engineOk
            /\ job[t].calls \in 1 .. MAX_DOWNLOAD_RETRIES
            /\ job[t].path = None
            /\ job[t].added = 0
            /\ job[t].pc \in { "except", "finally", "serve", "done" }
            /\ job[t].pc = "except" => C11_NoMatch(t)
            /\ job[t].resp # None =>
                 /\ job[t].resp[1].status = 500
                 /\ job[t].resp[1].file = None
                 /\ job[t].resp[1].error[1].kind = "FileNotFoundError")
  /\ [][C11_NotFoundStep]_vars

\* after one successful call that left the workspace empty the handler has
\* built the 500 reply with the FileNotFoundError
C11_Witness ==
  \E t \in Threads :
    /\ job[t].pc = "finally"
    /\ ExcKind(t) = "FileNotFoundError"
    /\ job[t].calls = 1
    /\ job[t].resp[1].status = 500
    /\ DirExists(t)
    /\ fs[job[t].id].entries = {}


\* C12 as stated: every failure of a job, workspace creation included, is
\* caught in download_get and answered with status 500 and a JSON body that
\* carries the cause; no failure ends in a file response.
C12_AllFailuresCaught ==
  \A t \in Threads :
    (job[t].pc = "done" /\ job[t].exc # None) =>
      /\ job[t].exc[1].caught
      /\ job[t].sent[1].status = 500
      /\ job[t].sent[1].kind = "json"
      /\ job[t].sent[1].file = None
      /\ job[t].sent[1].error
           = Some([ kind |-> job[t].exc[1].kind, detail |-> job[t].exc[1].detail ])

\* C13 as stated: jobs never share a workspace, only its own job changes a
\* workspace, every successful job has its own row, and in the table the
\* ids are strictly increasing and the timestamps non-decreasing, under
\* every interleaving.
C13_OwnWorkspace ==
  \A t \in Threads :
    /\ Acquired(t) => job[t].tmp = Some(job[t].id)
    /\ job[t].path # None => job[t].path[1].dir = job[t].tmp[1]
    /\ \A u \in Threads \ { t } :
         (Acquired(t) /\ Acquired(u)) => job[t].tmp # job[u].tmp

C13_OwnRow ==
  \A t \in Threads :
    Delivered200(t) =>
      /\ job[t].added = 1
      /\ Cardinality({ i \in 1 .. Len(history) : history[i] = job[t].pending[1] }) = 1
      /\ \A u \in Threads \ { t } :
           Delivered200(u) => job[u].pending[1].id # job[t].pending[1].id

C13_IdsIncrease ==
  \A i, k \in 1 .. Len(history) : i < k => history[i].id < history[k].id

C13_TimestampsInOrder ==
  \A i, k \in 1 .. Len(history) :
    i < k => history[i].timestamp <= history[k].timestamp

C13_OnlyOwnerTouches ==
  \A d \in Dirs :
    fs'[d] # fs[d] =>
      \E t \in Threads : job'[t] # job[t] /\ job'[t].tmp = Some(d)

C13_IsolatedAndOrdered ==
  /\ [](C13_OwnWorkspace /\ C13_OwnRow /\ C13_IdsIncrease /\ C13_TimestampsInOrder)
  /\ [][C13_OnlyOwnerTouches]_vars

\* C13 amended: the same, except that a timestamp is only a clock reading
\* taken before the row is inserted: every timestamp is at most the last
\* reading, and the timestamps need not be in the order of the ids.
C13_TimestampsAreReadings ==
  /\ \A i \in 1 .. Len(history) : history[i].timestamp \in 0 .. clock
  /\ \A t \in Threads :
       job[t].pc = "insert" => job[t].pending[1].timestamp \in 0 .. clock

C13_IsolatedWithIncreasingIds ==
  /\ [](C13_OwnWorkspace /\ C13_OwnRow /\ C13_IdsIncrease /\ C13_TimestampsAreReadings)
  /\ [][C13_OnlyOwnerTouches]_vars

\* two jobs running at once have both delivered their files, and the row
\* with the larger id carries the earlier timestamp
C13_Witness ==
  /\ \A t \in { 1, 2 } : Delivered200(t)
  /\ Len(history) = 2
  /\ history[1].id < history[2].id
  /\ history[1].timestamp > history[2].timestamp


\* the options get_ydl_opts returned for a supported format
C14_Built ==
  /\ ret # None
  /\ arg[1].file_format \in C5_Supported

\* C14 as stated: for each of mp4, mp3, jpg and png the options disable
\* certificate validation and carry the fixed user agent and the retry
\* budget MAX_DOWNLOAD_RETRIES.
C14_CommonOptions ==
  C14_Built =>
    /\ ret[1] # None
    /\ "nocheckcertificate" \in DOMAIN ret[1][1]
    /\ ret[1][1].nocheckcertificate
    /\ "user_agent" \in DOMAIN ret[1][1]
    /\ ret[1][1].user_agent = DEFAULT_USER_AGENT
    /\ "retries" \in DOMAIN ret[1][1]
    /\ ret[1][1].retries = MAX_DOWNLOAD_RETRIES

\* C15: mp4 selects best video plus best audio merged into mp4 with no
\* post-processing; mp3 selects best audio with exactly one step that
\* re-encodes to mp3 at 192; jpg and png skip the download and ask for the
\* thumbnail only; every other format raises; the template is passed through.
C15_StrategyPerFormat ==
  ret # None =>
    LET f == arg[1].file_format
        o == ret[1]
    IN  /\ (o # None) <=> (f \in C5_Supported)
        /\ o # None => o[1].outtmpl = arg[1].output_template
        /\ f = MP4 =>
             /\ o[1].format = "bestvideo+bestaudio/best"
             /\ o[1].merge_output_format = "mp4"
             /\ "postprocessors" \notin DOMAIN o[1]
             /\ "skip_download" \notin DOMAIN o[1]
        /\ f = MP3 =>
             /\ o[1].format = "bestaudio/best"
             /\ Len(o[1].postprocessors) = 1
             /\ o[1].postprocessors[1].key = "FFmpegExtractAudio"
             /\ o[1].postprocessors[1].preferredcodec = "mp3"
             /\ o[1].postprocessors[1].preferredquality = "192"
             /\ "merge_output_format" \notin DOMAIN o[1]
             /\ "skip_download" \notin DOMAIN o[1]
        /\ f \in { JPG, PNG } =>
             /\ o[1].skip_download
             /\ o[1].write_thumbnail
             /\ "format" \notin DOMAIN o[1]
             /\ "postprocessors" \notin DOMAIN o[1]

\* the options for mp3 have been built with their one re-encoding step
C15_Witness ==
  /\ ret # None
  /\ arg[1].file_format = MP3
  /\ ret[1] # None
  /\ Len(ret[1][1].postprocessors) = 1


\* the states of a job, in the order of the state machine
JobStates ==
  << "Created", "WorkspaceAcquired", "ConfigSelected", "Extracting",
     "Resolving", "Completed" >>

\* record j is a job: a request that passed the test of lines 119-120
IsJob(j) ==
  /\ j.pc # "idle"
  /\ ~(j.resp # None /\ j.resp[1].status = 400)

\* the states job j has entered, as positions in JobStates
Entered(j) ==
  { k \in 1 .. Len(JobStates) :
      CASE k = 1 -> TRUE
        [] k = 2 -> j.tmp # None
        [] k = 3 -> j.opts # None
        [] k = 4 -> j.calls >= 1
        [] k = 5 -> \/ j.pc = "resolve"
                    \/ j.path # None
                    \/ (j.exc # None /\ j.exc[1].kind = "FileNotFoundError")
        [] OTHER -> j.path # None }

\* job j failed: one of its own steps raised before a file was resolved
JobFailed(j) == j.exc # None /\ j.path = None

\* the state job j is in
JobState(j) ==
  IF JobFailed(j) THEN "Failed"
  ELSE JobStates[Cardinality(Entered(j))]

\* C16, order: the states a job has entered are a prefix of the chain,
\* and it entered Resolving only after an attempt that succeeded
C16_InOrder ==
  \A t \in Threads :
    IsJob(job[t]) =>
      /\ Entered(job[t]) = 1 .. Cardinality(Entered(job[t]))
      /\ 5 \in Entered(job[t]) => job[t].engineOk
      /\ 4 \in Entered(job[t]) => job[t].calls <= MAX_DOWNLOAD_RETRIES

\* C16, steps: while the record holds the job it never goes back to an
\* earlier state, and Completed and Failed are left by no step
C16_Forward ==
  \A t \in Threads :
    (IsJob(job[t]) /\ IsJob(job[t]')) =>
      /\ Entered(job[t]) \subseteq Entered(job[t]')
      /\ JobState(job[t]) \in { "Completed", "Failed" } =>
           JobState(job[t]') = JobState(job[t])
      /\ JobState(job[t]') # JobState(job[t]) =>
           \/ JobState(job[t]') = "Failed"
           \/ Cardinality(Entered(job[t]')) = Cardinality(Entered(job[t])) + 1
           \/ /\ JobState(job[t]) = "ConfigSelected"
              /\ JobState(job[t]') = "Resolving"
              /\ job[t]'.calls = 1

C16_FailedFrom(k) ==
  \E t \in Threads :
    /\ IsJob(job[t])
    /\ JobState(job[t]) = "Failed"
    /\ Cardinality(Entered(job[t])) = k

C17_CleanupFailed(t) == job[t].pc = "done" /\ job[t].rmFailed

\* the response of thread t's job is what the steps before the removal made it
C17_OutcomeKept(t) ==
  /\ (job[t].path # None /\ job[t].exc = None) =>
       (job[t].sent[1].status = 200 /\ job[t].sent[1].file = job[t].path)
  /\ job[t].exc # None =>
       /\ job[t].sent[1].status = 500
       /\ job[t].sent[1].error[1].kind = job[t].exc[1].kind
       /\ job[t].sent[1].error[1].detail = job[t].exc[1].detail

\* the log of thread t's job holds a record besides the attempts' warnings
\* and the handler's error
C17_CleanupLogged(t) ==
  Len(job[t].log) > Warnings(t) + (IF job[t].exc # None THEN 1 ELSE 0)

\* C17 as stated: a removal that fails does not propagate and leaves the
\* outcome as it was (the file of a successful job, the original error of a
\* failed one), and the failure of the removal is logged.
C17_CleanupFailureHarmlessAndLogged ==
  \A t \in Threads :
    C17_CleanupFailed(t) => (C17_OutcomeKept(t) /\ C17_CleanupLogged(t))



\* the step is the commit of thread t's job going through
C18_Committed(t) ==
  /\ job[t].pc = "insert"
  /\ job[t]'.pc = "sendfile"
  /\ job[t].exc = None

\* C18, steps: every step keeps the rows there are, as they are and where
\* they are; the table grows by one row at a time, and only in the commit
\* of a job whose extraction and resolution succeeded
C18_RowsKept ==
  /\ Len(history') >= Len(history)
  /\ \A i \in 1 .. Len(history) : history'[i] = history[i]
  /\ history' # history =>
       /\ Len(history') = Len(history) + 1
       /\ \E t \in Threads : C18_Committed(t)

\* C18, requests: a request that was rejected or failed added no row
C18_NoRowWithoutSuccess ==
  \A t \in Threads :
    (job[t].resp # None /\ job[t].resp[1].status # 200) => job[t].added = 0

\* C18: the history store is append-only: a successful job, a failed job, a
\* rejected request and a history query never change or delete a row, and
\* the last three leave the store as it was.
C18_AppendOnly == [](C18_NoRowWithoutSuccess) /\ [][C18_RowsKept]_vars

\* a row is stored, a second request failed, and a query answered after it
\* lists that one row
C18_Witness ==
  /\ Len(history) = 1
  /\ job[1].id = 2
  /\ job[1].pc = "done"
  /\ job[1].sent[1].status = 500
  /\ historyBody # None
  /\ Len(historyBody[1]) = 1
  /\ historyBody[1][1].id = history[1].id


\* what a served job did and got, leaving out what names the job itself:
\* its number, its directory and the quality it was asked for
C19_Course(j) ==
  [ url |-> j.args[1].url,
    file_format |-> j.args[1].format,
    opts |-> IF j.opts = None THEN None
             ELSE Some([ j.opts[1] EXCEPT !.outtmpl = @.base ]),
    calls |-> j.calls,
    engineOk |-> j.engineOk,
    log |-> j.log,
    path |-> IF j.path = None THEN None ELSE Some(j.path[1].name),
    exc |-> j.exc,
    status |-> j.sent[1].status,
    kind |-> j.sent[1].kind,
    error |-> j.sent[1].error,
    file |-> IF j.sent[1].file = None THEN None
             ELSE Some(j.sent[1].file[1].name),
    name |-> j.sent[1].name,
    added |-> j.added ]

\* C19: two jobs with the same url and format and different quality get the
\* same extraction config, make the same engine calls and reach the same
\* outcome against the same engine behaviour, and the rows they append
\* differ in quality only (and in the id and timestamp the store assigns).
C19_QualityIsInert ==
  \A t, u \in Threads :
    (job[t].pc = "done" /\ job[u].pc = "done") =>
      /\ C19_Course(job[t]) = C19_Course(job[u])
      /\ \A i, k \in 1 .. Len(history) :
           /\ history[i].url = history[k].url
           /\ history[i].file_format = history[k].file_format

\* two jobs of different quality were both served the file after a first
\* attempt that failed, and their rows differ in quality
C19_Witness ==
  /\ job[1].pc = "done"
  /\ job[2].pc = "done"
  /\ job[1].quality # job[2].quality
  /\ job[1].calls = 2
  /\ job[1].sent[1].status = 200
  /\ job[2].sent[1].status = 200
  /\ Len(history) >= 2
  /\ history[1].quality # history[2].quality


\* thread t's handler is running job d
C20_Running(t, d) ==
  /\ IsJob(job[t])
  /\ job[t].id = d
  /\ job[t].pc # "done"

\* thread t's handler has finished job d
C20_Terminated(t, d) ==
  /\ job[t].id = d
  /\ job[t].pc = "done"
  /\ JobState(job[t]) \in { "Completed", "Failed" }
  /\ job[t].calls <= MAX_DOWNLOAD_RETRIES

\* C20 as stated: provided every engine call returns, every job eventually
\* terminates in Completed or Failed with its workspace released (the
\* directory is gone), after no more than MAX_DOWNLOAD_RETRIES engine calls.
C20_TerminatesReleased ==
  \A t \in Threads, d \in Dirs :
    C20_Running(t, d) ~>
      /\ C20_Terminated(t, d)
      /\ Acquired(t) => ~DirExists(t)

\* C20, amended: every job eventually terminates in Completed or Failed
\* after no more than MAX_DOWNLOAD_RETRIES engine calls, its workspace
\* released in that rmtree has run on it once; the directory is gone unless
\* that removal failed.
C20_TerminatesCleanupAttempted ==
  \A t \in Threads, d \in Dirs :
    C20_Running(t, d) ~>
      /\ C20_Terminated(t, d)
      /\ Acquired(t) => (job[t].rmCalls = 1 /\ (DirExists(t) <=> job[t].rmFailed))

\* a job that used both attempts has terminated with its directory removed
C20_Witness ==
  \E t \in Threads :
    /\ job[t].pc = "done"
    /\ IsJob(job[t])
    /\ job[t].calls = MAX_DOWNLOAD_RETRIES
    /\ job[t].rmCalls = 1
    /\ ~DirExists(t)

====
